---- MODULE Spec2Model ----
(***************************************************************************)
(* Model of the calmMeDown HTTP function and its agentic tool-calling      *)
(* loop (callClaudeWithTools, handleToolCall, queryDataConnect).           *)
(*                                                                         *)
(* The repository holds four near-duplicate variants of the function:      *)
(*   "buffered"   src/functions/src/index.ts      messages.create, 2 tools *)
(*   "streaming"  src/unnamed/part_000            messages.stream, 2 tools *)
(*   "streaming7" src/unnamed/part_001:1-390      messages.stream, 7 tools *)
(*   "fetch"      src/unnamed/part_001:392-588    messages.create, fetch   *)
(* One request is followed from its arrival to its response.  Every action *)
(* is the code that runs between two awaits.                               *)
(***************************************************************************)
EXTENDS Naturals, Sequences, FiniteSets, TLC

VARIABLES
    variant,        \* which of the four source variants is deployed
    body,           \* req.body of the inbound request
    pc,             \* position of the handler / controller
    messages,       \* the conversation (local of callClaudeWithTools)
    response,       \* the model response of the current iteration
    pending,        \* text deltas the stream has still to emit
    toolUseBlocks,  \* the tool_use blocks of the current response
    toolResults,    \* the tool_result entries collected so far
    res,            \* the HTTP response object
    error,          \* the error in flight to / caught by the handler
    modelCalls,     \* number of model calls started (history)
    queries,        \* number of backend queries started (history)
    controllerCalls,\* number of invocations of callClaudeWithTools (history)
    inflight,       \* the message the model call in flight will resolve to
    deltas,         \* every delta of the current stream, in order (history)
    turnStart,      \* Len(res.body) when the current model call started
    conc,           \* the requests in flight of the concurrent specification
    cmp             \* the two variants run side by side on the same answers

vars == <<variant, body, pc, messages, response, pending, toolUseBlocks,
          toolResults, res, error, modelCalls, queries, controllerCalls,
          inflight, deltas, turnStart, conc, cmp>>

---------------------------------------------------------------------------
(* Bounds *)

\* model calls followed per request (the code has no such cap)
MaxCalls == 2
\* content blocks the model produces per request, over all its responses
MaxBlocks == 3
\* requests served concurrently by one instance (concurrent specification)
NumRequests == 2

---------------------------------------------------------------------------
(* The four variants *)

Variants == {"buffered", "streaming", "streaming7", "fetch"}

Streaming(v) == v \in {"streaming", "streaming7"}

\* the names declared in the tools catalog of each variant
toolsSevenEverywhere(v) ==
    <<"get_all_match_data", "list_matches", "get_match", "list_players",
      "get_player", "get_events_by_type", "get_player_events">>

tools(v) ==
    IF v = "streaming7"
    THEN <<"get_all_match_data", "list_matches", "get_match", "list_players",
           "get_player", "get_events_by_type", "get_player_events">>
    ELSE <<"list_matches", "get_match">>

---------------------------------------------------------------------------
(* Request Handler: reading the input *)

Whitespace == {" ", "\t", "\n"}

\* String.prototype.trim on a string held as a sequence of characters
RECURSIVE TrimStart(_)
TrimStart(s) ==
    IF s # <<>> /\ Head(s) \in Whitespace THEN TrimStart(Tail(s)) ELSE s

RECURSIVE TrimEnd(_)
TrimEnd(s) ==
    IF s # <<>> /\ s[Len(s)] \in Whitespace
    THEN TrimEnd(SubSeq(s, 1, Len(s) - 1)) ELSE s

trim(s) == TrimEnd(TrimStart(s))

\* String(req.body?.userInputText || "")
userInputText(b) ==
    IF b.present /\ b.userInputText # <<>> THEN b.userInputText ELSE <<>>

\* !userInputText.trim()
BlankNoTrim(text) == text = <<>>

Blank(text) == trim(text) = <<>>

\* the request bodies followed: field missing, empty, whitespace only, text
Bodies ==
    { [present |-> FALSE, userInputText |-> <<>>],
      [present |-> TRUE,  userInputText |-> <<>>],
      [present |-> TRUE,  userInputText |-> <<" ", " ">>],
      [present |-> TRUE,  userInputText |-> <<"\n">>],
      [present |-> TRUE,  userInputText |-> <<" ", "h", " ">>] }

PleaseEnter == "Please enter a message."

---------------------------------------------------------------------------
(* The HTTP response object *)

NewRes ==
    [status |-> 200, headers |-> {}, headersSent |-> FALSE,
     body |-> <<>>, ended |-> FALSE, completions |-> 0]

\* res.set(name, value)
SetHeader(r, name, value) ==
    [r EXCEPT !.headers = {h \in @ : h[1] # name} \cup {<<name, value>>}]

\* res.status(code)
SetStatus(r, code) == [r EXCEPT !.status = code]

\* res.write(chunk): commits the headers and writes one chunk
WriteDropped(r, chunk) == [r EXCEPT !.headersSent = TRUE]

Write(r, chunk) ==
    [r EXCEPT !.headersSent = TRUE, !.body = Append(@, chunk)]

\* res.send(text): writes the whole body and completes the response
Send(r, text) ==
    [r EXCEPT !.headersSent = TRUE, !.body = Append(@, text),
              !.ended = TRUE, !.completions = @ + 1]

\* res.end(): completes the response
End(r) ==
    [r EXCEPT !.headersSent = TRUE, !.ended = TRUE, !.completions = @ + 1]

\* the four headers set before streaming starts
StreamingHeaders(r) ==
    SetHeader(SetHeader(SetHeader(SetHeader(r,
        "Content-Type", "text/plain; charset=utf-8"),
        "Transfer-Encoding", "chunked"),
        "Cache-Control", "no-cache"),
        "X-Content-Type-Options", "nosniff")

---------------------------------------------------------------------------
(* The model API: what messages.create / messages.stream can answer *)

TextRuns == { <<>>, <<"a", "b">> }

\* the tool requests the model is followed through: a catalog tool without
\* arguments, one with and without its required argument, one name outside
\* every catalog and one name that only the seven-tool catalog declares
ToolRequests ==
    { [name |-> "list_matches",      input |-> {}],
      [name |-> "get_match",         input |-> {<<"id", "X">>}],
      [name |-> "get_match",         input |-> {}],
      [name |-> "delete_everything", input |-> {}],
      [name |-> "get_player_events", input |-> {<<"playerId", "P">>}] }

ScriptBlocks ==
    { [type |-> "text", deltas |-> d, name |-> "", input |-> {}] :
          d \in TextRuns }
    \cup
    { [type |-> "tool_use", deltas |-> <<>>, name |-> t.name,
       input |-> t.input] : t \in ToolRequests }

\* the responses of at most n content blocks
Scripts(n) == UNION { [1..k -> ScriptBlocks] : k \in 0..n }

StopReasons == {"tool_use", "end_turn"}

RECURSIVE Concat(_)
Concat(ss) == IF ss = <<>> THEN "" ELSE Head(ss) \o Concat(Tail(ss))

RECURSIVE Flatten(_)
Flatten(sss) == IF sss = <<>> THEN <<>> ELSE Head(sss) \o Flatten(Tail(sss))

\* the text deltas of a stream, in the order the model produces them
Deltas(script) == Flatten([i \in 1..Len(script) |-> script[i].deltas])

\* tool_use ids are unique: the API mints one per requested invocation
ToolUseId(callNo, position) == callNo * 10 + position

\* the structured message a call resolves to
FinalMessage(script, stopReason, callNo) ==
    [stop_reason |-> stopReason,
     content |-> [i \in 1..Len(script) |->
        IF script[i].type = "text"
        THEN [type |-> "text", text |-> Concat(script[i].deltas)]
        ELSE [type |-> "tool_use", id |-> ToolUseId(callNo, i),
              name |-> script[i].name, input |-> script[i].input]]]

NoResponse == [stop_reason |-> "none", content |-> <<>>]

NoError == [source |-> "none", message |-> ""]

ModelError == [source |-> "model", message |-> "529 overloaded_error"]

BackendError == [source |-> "backend", message |-> "fetch failed"]

---------------------------------------------------------------------------
(* Query Executor *)

Undefined == "undefined"

\* toolInput.<key>
Get(input, key) ==
    IF \E p \in input : p[1] = key
    THEN (CHOOSE p \in input : p[1] = key)[2]
    ELSE Undefined

Query(name, variables) ==
    [kind |-> "query", query |-> name, variables |-> variables,
     value |-> [key |-> "", string |-> FALSE, value |-> ""]]

ErrorPayload(message) == [key |-> "error", string |-> TRUE, value |-> message]

Return(value) ==
    [kind |-> "value", query |-> "", variables |-> {}, value |-> value]

\* the default case of the switch
UnknownToolNoName(toolName) == Return(ErrorPayload("Unknown tool"))

UnknownTool(toolName) == Return(ErrorPayload("Unknown tool: " \o toolName))

\* the switch of the seven-tool variant
HandleToolCall7(toolName, toolInput) ==
    CASE toolName = "get_all_match_data" -> Query("GetAllMatchData", {})
      [] toolName = "list_matches" -> Query("ListMatches", {})
      [] toolName = "get_match" ->
            Query("GetMatch", {<<"id", Get(toolInput, "id")>>})
      [] toolName = "list_players" -> Query("ListPlayers", {})
      [] toolName = "get_player" ->
            Query("GetPlayer", {<<"id", Get(toolInput, "id")>>})
      [] toolName = "get_events_by_type" ->
            Query("GetEventsByType",
                  {<<"eventType", Get(toolInput, "eventType")>>})
      [] toolName = "get_player_events" ->
            Query("GetPlayerEvents",
                  {<<"playerId", Get(toolInput, "playerId")>>})
      [] OTHER -> UnknownTool(toolName)

\* the switch of the two-tool variants
HandleToolCall2(toolName, toolInput) ==
    CASE toolName = "list_matches" -> Query("ListMatches", {})
      [] toolName = "get_match" ->
            Query("GetMatch", {<<"id", Get(toolInput, "id")>>})
      [] OTHER -> UnknownTool(toolName)

\* handleToolCall up to its await of queryDataConnect
handleToolCall(v, toolName, toolInput) ==
    IF v = "streaming7"
    THEN HandleToolCall7(toolName, toolInput)
    ELSE HandleToolCall2(toolName, toolInput)

\* the names with a case of their own in the switch
Handled(v) ==
    IF v = "streaming7"
    THEN {"get_all_match_data", "list_matches", "get_match", "list_players",
          "get_player", "get_events_by_type", "get_player_events"}
    ELSE {"list_matches", "get_match"}

\* what a query that does not throw resolves to: result.data of the Admin
\* SDK, or the parsed JSON body of the fetch variant (which carries GraphQL
\* errors as data)
BackendReplies(v, call) ==
    IF \E p \in call.variables : p[2] = Undefined
    THEN IF v = "fetch"
         THEN { [key |-> "errors", string |-> FALSE, value |-> "[{}]"] }
         ELSE {}
    ELSE { [key |-> "data", string |-> FALSE, value |-> "{}"] }

\* JSON.stringify of a tool result
JSONstringify(result) ==
    "{\"" \o result.key \o "\":"
      \o (IF result.string THEN "\"" \o result.value \o "\"" ELSE result.value)
      \o "}"

---------------------------------------------------------------------------
(* Agentic Loop Controller: the pieces of one iteration *)

\* response.stop_reason === "tool_use"
IsToolUseAlways(resp) == TRUE

IsToolUse(resp) == resp.stop_reason = "tool_use"

\* response.content.filter(block => block.type === "tool_use")
RECURSIVE FilterToolUse(_)
FilterToolUse(content) ==
    IF content = <<>> THEN <<>>
    ELSE IF Head(content).type = "tool_use"
         THEN <<Head(content)>> \o FilterToolUse(Tail(content))
         ELSE FilterToolUse(Tail(content))

\* the entry pushed onto toolResults for one tool_use block
ToolResultFirstId(toolUse, result) ==
    [type |-> "tool_result", tool_use_id |-> toolUseBlocks[1].id,
     content |-> JSONstringify(result)]

ToolResult(toolUse, result) ==
    [type |-> "tool_result", tool_use_id |-> toolUse.id,
     content |-> JSONstringify(result)]

\* the two pushes that close a tool-dispatch round
AppendRoundReplace(msgs, content, results) ==
    << msgs[1], [role |-> "assistant", content |-> content],
                [role |-> "user", content |-> results] >>

AppendRoundSwapped(msgs, content, results) ==
    msgs \o << [role |-> "user", content |-> results],
               [role |-> "assistant", content |-> content] >>

AppendRoundToolsOnly(msgs, content, results) ==
    msgs \o << [role |-> "assistant", content |-> FilterToolUse(content)],
               [role |-> "user", content |-> results] >>

AppendRound(msgs, content, results) ==
    msgs \o << [role |-> "assistant", content |-> content],
               [role |-> "user", content |-> results] >>

NoResponseGenerated == "No response generated."

\* response.content.find(block => block.type === "text")?.text || "No ..."
RECURSIVE FinalTextNonEmpty(_)
FinalTextNonEmpty(content) ==
    IF content = <<>> THEN NoResponseGenerated
    ELSE IF Head(content).type = "text" /\ Head(content).text # ""
         THEN Head(content).text
         ELSE FinalTextNonEmpty(Tail(content))

RECURSIVE FinalText(_)
FinalText(content) ==
    IF content = <<>> THEN NoResponseGenerated
    ELSE IF Head(content).type = "text"
         THEN IF Head(content).text = "" THEN NoResponseGenerated
              ELSE Head(content).text
         ELSE FinalText(Tail(content))

---------------------------------------------------------------------------
(* Request Handler: answering *)

\* the body of the 500 response
ErrorText(v, errMsg) ==
    IF v = "fetch"
    THEN "Sorry, something went wrong. Please try again."
    ELSE "Error: " \o errMsg

\* the catch block of the handler
CatchResponseAlways500(v, r, errMsg) ==
    Send(SetHeader(SetStatus(r, 500), "Content-Type", "text/plain"),
         ErrorText(v, errMsg))

CatchResponse(v, r, errMsg) ==
    IF Streaming(v) /\ r.headersSent
    THEN End(r)
    ELSE Send(SetHeader(SetStatus(r, 500), "Content-Type", "text/plain"),
              ErrorText(v, errMsg))

---------------------------------------------------------------------------
(* State machine *)

\* the side-by-side run has not started
NotCompared ==
    [pc |-> "start", calls |-> 0, turns |-> <<>>, inflight |-> NoResponse,
     pending |-> <<>>, buffered |-> NewRes, streaming |-> NewRes]

Requests == 1..NumRequests

\* no request has arrived
NoRequests ==
    [pc    |-> [r \in Requests |-> "idle"],
     conv  |-> [r \in Requests |-> <<>>],
     resp  |-> [r \in Requests |-> NoResponse],
     calls |-> [r \in Requests |-> 0],
     sent  |-> [r \in Requests |-> <<>>]]

Init ==
    /\ variant \in Variants
    /\ body \in Bodies
    /\ pc = "start"
    /\ messages = <<>>
    /\ response = NoResponse
    /\ pending = <<>>
    /\ toolUseBlocks = <<>>
    /\ toolResults = <<>>
    /\ res = NewRes
    /\ error = NoError
    /\ modelCalls = 0
    /\ queries = 0
    /\ controllerCalls = 0
    /\ inflight = NoResponse
    /\ deltas = <<>>
    /\ turnStart = 0
    /\ conc = NoRequests
    /\ cmp = NotCompared

\* calmMeDown, blank input: answer the fixed prompt and return
ReceiveBlank ==
    /\ pc = "start"
    /\ Blank(userInputText(body))
    /\ res' = Send(SetHeader(res, "Content-Type", "text/plain"), PleaseEnter)
    /\ pc' = "responded"
    /\ UNCHANGED <<variant, body, messages, response, pending, toolUseBlocks,
                   toolResults, error, modelCalls, queries, inflight, deltas,
                   turnStart,
                   controllerCalls, conc, cmp>>

\* calmMeDown, non-blank input: enter callClaudeWithTools, which seeds the
\* conversation with the caller's text (AWAITING_MODEL)
ReceiveTextTrimmed ==
    /\ pc = "start"
    /\ ~Blank(userInputText(body))
    /\ res' = IF Streaming(variant) THEN StreamingHeaders(res) ELSE res
    /\ messages' = <<[role |-> "user", content |-> trim(userInputText(body))]>>
    /\ controllerCalls' = controllerCalls + 1
    /\ pc' = "awaiting_model"
    /\ UNCHANGED <<variant, body, response, pending, toolUseBlocks,
                   toolResults, error, modelCalls, queries, inflight, deltas,
                   turnStart, conc, cmp>>

ReceiveText ==
    /\ pc = "start"
    /\ ~Blank(userInputText(body))
    /\ res' = IF Streaming(variant) THEN StreamingHeaders(res) ELSE res
    /\ messages' = <<[role |-> "user", content |-> userInputText(body)]>>
    /\ controllerCalls' = controllerCalls + 1
    /\ pc' = "awaiting_model"
    /\ UNCHANGED <<variant, body, response, pending, toolUseBlocks,
                   toolResults, error, modelCalls, queries, inflight, deltas,
                   turnStart, conc, cmp>>

\* the content blocks of the responses received so far; every one of them is
\* in an assistant turn of the conversation when the next call starts
RECURSIVE BlocksReceived(_)
BlocksReceived(msgs) ==
    IF msgs = <<>> THEN 0
    ELSE (IF Head(msgs).role = "assistant" THEN Len(Head(msgs).content) ELSE 0)
            + BlocksReceived(Tail(msgs))

\* messages.create / messages.stream with the current conversation
CallModel ==
    /\ pc = "awaiting_model"
    /\ modelCalls < MaxCalls
    /\ \E script \in Scripts(MaxBlocks - BlocksReceived(messages)),
          stopReason \in StopReasons :
          /\ inflight' = FinalMessage(script, stopReason, modelCalls + 1)
          /\ pending' = IF Streaming(variant) THEN Deltas(script) ELSE <<>>
    /\ deltas' = pending'
    /\ turnStart' = Len(res.body)
    /\ modelCalls' = modelCalls + 1
    /\ pc' = "model_call"
    /\ UNCHANGED <<variant, body, messages, response, toolUseBlocks,
                   toolResults, res, error, queries,
                   controllerCalls, conc, cmp>>

\* stream.on("text", delta => res.write(delta))
StreamText ==
    /\ pc = "model_call"
    /\ Streaming(variant)
    /\ pending # <<>>
    /\ res' = Write(res, Head(pending))
    /\ pending' = Tail(pending)
    /\ UNCHANGED <<variant, body, pc, messages, response, toolUseBlocks,
                   toolResults, error, modelCalls, queries, inflight, deltas,
                   turnStart,
                   controllerCalls, conc, cmp>>

\* the model call rejects (auth, rate limit, network), possibly mid-stream
ModelFailsRetry ==
    /\ pc = "model_call"
    /\ pc' = "awaiting_model"
    /\ UNCHANGED <<variant, body, messages, response, pending, toolUseBlocks,
                   toolResults, res, error, modelCalls, queries, inflight,
                   deltas, turnStart,
                   controllerCalls, conc, cmp>>

ModelFails ==
    /\ pc = "model_call"
    /\ error' = ModelError
    /\ pc' = "thrown"
    /\ UNCHANGED <<variant, body, messages, response, pending, toolUseBlocks,
                   toolResults, res, modelCalls, queries, inflight, deltas,
                   turnStart,
                   controllerCalls, conc, cmp>>

\* the model call resolves with stop reason tool_use: filter the tool_use
\* blocks and start dispatching them (DISPATCHING_TOOLS); with no tool_use
\* block the for loop is empty and both turns are pushed at once
ModelReturnsToolUseEarly ==
    /\ pc = "model_call"
    /\ IsToolUse(inflight)
    /\ response' = inflight
    /\ toolUseBlocks' = FilterToolUse(inflight.content)
    /\ toolResults' = <<>>
    /\ IF toolUseBlocks' = <<>>
       THEN /\ messages' = AppendRound(messages, inflight.content, <<>>)
            /\ pc' = "awaiting_model"
       ELSE /\ messages' = messages
            /\ pc' = "dispatching"
    /\ UNCHANGED <<variant, body, pending, res, error, modelCalls, queries,
                   inflight, deltas, turnStart,
                   controllerCalls, conc, cmp>>

ModelReturnsToolUseEmptyDone ==
    /\ pc = "model_call"
    /\ pending = <<>>
    /\ IsToolUse(inflight)
    /\ response' = inflight
    /\ toolUseBlocks' = FilterToolUse(inflight.content)
    /\ toolResults' = <<>>
    /\ IF toolUseBlocks' = <<>>
       THEN /\ messages' = messages
            /\ pc' = "done"
       ELSE /\ messages' = messages
            /\ pc' = "dispatching"
    /\ UNCHANGED <<variant, body, pending, res, error, modelCalls, queries,
                   inflight, deltas, turnStart,
                   controllerCalls, conc, cmp>>

ModelReturnsToolUse ==
    /\ pc = "model_call"
    /\ pending = <<>>
    /\ IsToolUse(inflight)
    /\ response' = inflight
    /\ toolUseBlocks' = FilterToolUse(inflight.content)
    /\ toolResults' = <<>>
    /\ IF toolUseBlocks' = <<>>
       THEN /\ messages' = AppendRound(messages, inflight.content, <<>>)
            /\ pc' = "awaiting_model"
       ELSE /\ messages' = messages
            /\ pc' = "dispatching"
    /\ UNCHANGED <<variant, body, pending, res, error, modelCalls, queries,
                   inflight, deltas, turnStart,
                   controllerCalls, conc, cmp>>

\* the model call resolves with any other stop reason: the loop ends (DONE)
ModelReturnsFinalEarly ==
    /\ pc = "model_call"
    /\ ~IsToolUse(inflight)
    /\ response' = inflight
    /\ pc' = "done"
    /\ UNCHANGED <<variant, body, messages, pending, toolUseBlocks,
                   toolResults, res, error, modelCalls, queries, inflight,
                   deltas, turnStart,
                   controllerCalls, conc, cmp>>

ModelReturnsFinal ==
    /\ pc = "model_call"
    /\ pending = <<>>
    /\ ~IsToolUse(inflight)
    /\ response' = inflight
    /\ pc' = "done"
    /\ UNCHANGED <<variant, body, messages, pending, toolUseBlocks,
                   toolResults, res, error, modelCalls, queries, inflight,
                   deltas, turnStart,
                   controllerCalls, conc, cmp>>

\* the tool_use block the for loop is at
CurrentToolUse == toolUseBlocks[Len(toolResults) + 1]

CurrentCall ==
    handleToolCall(variant, CurrentToolUse.name, CurrentToolUse.input)

\* toolResults.push(...) and, after the last block, the two messages.push
PushResult(result) ==
    LET results == Append(toolResults, ToolResult(CurrentToolUse, result))
    IN  /\ toolResults' = results
        /\ IF Len(results) = Len(toolUseBlocks)
           THEN /\ messages' = AppendRound(messages, response.content, results)
                /\ pc' = "awaiting_model"
           ELSE /\ messages' = messages
                /\ pc' = "dispatching"

\* handleToolCall on a name with a case: queryDataConnect is started
HandleKnownTool ==
    /\ pc = "dispatching"
    /\ CurrentCall.kind = "query"
    /\ queries' = queries + 1
    /\ pc' = "query"
    /\ UNCHANGED <<variant, body, messages, response, pending, toolUseBlocks,
                   toolResults, res, error, modelCalls, inflight, deltas,
                   turnStart,
                   controllerCalls, conc, cmp>>

\* handleToolCall on any other name: the default case returns a value
HandleUnknownToolThrows ==
    /\ pc = "dispatching"
    /\ CurrentCall.kind = "value"
    /\ error' = [source |-> "tool", message |-> CurrentCall.value.value]
    /\ pc' = "thrown"
    /\ UNCHANGED <<variant, body, messages, response, pending, toolUseBlocks,
                   toolResults, res, modelCalls, queries, inflight, deltas,
                   turnStart, controllerCalls, conc, cmp>>

HandleUnknownTool ==
    /\ pc = "dispatching"
    /\ CurrentCall.kind = "value"
    /\ PushResult(CurrentCall.value)
    /\ UNCHANGED <<variant, body, response, pending, toolUseBlocks, res,
                   error, modelCalls, queries, inflight, deltas, turnStart,
                   controllerCalls, conc, cmp>>

\* the backend query resolves
QueryReturns ==
    /\ pc = "query"
    /\ \E data \in BackendReplies(variant, CurrentCall) : PushResult(data)
    /\ UNCHANGED <<variant, body, response, pending, toolUseBlocks, res,
                   error, modelCalls, queries, inflight, deltas, turnStart,
                   controllerCalls, conc, cmp>>

\* the backend query rejects: nothing between queryDataConnect and the
\* handler's catch block catches it
QueryThrowsRetry ==
    /\ pc = "query"
    /\ queries' = queries + 1
    /\ UNCHANGED <<variant, body, pc, messages, response, pending,
                   toolUseBlocks, toolResults, res, error, modelCalls,
                   inflight, deltas, turnStart, controllerCalls, conc, cmp>>

QueryThrowsPartial ==
    /\ pc = "query"
    /\ error' = BackendError
    /\ messages' = AppendRound(messages, response.content, toolResults)
    /\ pc' = "thrown"
    /\ UNCHANGED <<variant, body, response, pending, toolUseBlocks,
                   toolResults, res, modelCalls, queries, inflight, deltas,
                   turnStart, controllerCalls, conc, cmp>>

QueryThrows ==
    /\ pc = "query"
    /\ error' = BackendError
    /\ pc' = "thrown"
    /\ UNCHANGED <<variant, body, messages, response, pending, toolUseBlocks,
                   toolResults, res, modelCalls, queries, inflight, deltas,
                   turnStart,
                   controllerCalls, conc, cmp>>

\* callClaudeWithTools has returned: send the text, or end the stream
HandlerFinishNoEnd ==
    /\ pc = "done"
    /\ res' = IF Streaming(variant)
              THEN res
              ELSE Send(SetHeader(res, "Content-Type", "text/plain"),
                        FinalText(response.content))
    /\ pc' = "responded"
    /\ UNCHANGED <<variant, body, messages, response, pending, toolUseBlocks,
                   toolResults, error, modelCalls, queries, inflight, deltas,
                   turnStart, controllerCalls, conc, cmp>>

HandlerFinish ==
    /\ pc = "done"
    /\ res' = IF Streaming(variant)
              THEN End(res)
              ELSE Send(SetHeader(res, "Content-Type", "text/plain"),
                        FinalText(response.content))
    /\ pc' = "responded"
    /\ UNCHANGED <<variant, body, messages, response, pending, toolUseBlocks,
                   toolResults, error, modelCalls, queries, inflight, deltas,
                   turnStart,
                   controllerCalls, conc, cmp>>

\* the catch block of the handler
HandlerCatch ==
    /\ pc = "thrown"
    /\ res' = CatchResponse(variant, res, error.message)
    /\ pc' = "responded"
    /\ UNCHANGED <<variant, body, messages, response, pending, toolUseBlocks,
                   toolResults, error, modelCalls, queries, inflight, deltas,
                   turnStart,
                   controllerCalls, conc, cmp>>

Next ==
    \/ ReceiveBlank
    \/ ReceiveText
    \/ CallModel
    \/ StreamText
    \/ ModelFails
    \/ ModelReturnsToolUse
    \/ ModelReturnsFinal
    \/ HandleKnownTool
    \/ HandleUnknownTool
    \/ QueryReturns
    \/ QueryThrows
    \/ HandlerFinish
    \/ HandlerCatch

Spec == Init /\ [][Next]_vars

TypeOK ==
    /\ variant \in Variants
    /\ pc \in {"start", "awaiting_model", "model_call", "dispatching",
               "query", "done", "thrown", "responded"}
    /\ modelCalls \in 0..MaxCalls
    /\ res.status \in {200, 500}

---------------------------------------------------------------------------
(* Concurrent requests: several invocations of calmMeDown on one instance,
   interleaved at their awaits *)

\* the text of request r; the texts differ so that a turn tells its request
InputOf(r) == [i \in 1..r |-> "h"]

\* the responses the model is followed through when requests interleave: one
\* request for a tool with a case, or one for a tool without
ConcScripts ==
    { << [type |-> "tool_use", deltas |-> <<>>, name |-> n, input |-> {}] >> :
          n \in {"list_matches", "delete_everything"} }

\* the model call numbers of request r, distinct from every other request's
CallNoOf(r, call) == r * 10 + call

\* the request a tool_use id was minted for
RequestOfId(id) == id \div 100

\* const messages = [...]: the conversation is a local of the invocation of
\* callClaudeWithTools, one array per request
MessagesShared(r) == 1

MessagesOf(r) == r

ConvOf(r) == conc.conv[MessagesOf(r)]

InitConc ==
    /\ variant \in Variants
    /\ body = [present |-> FALSE, userInputText |-> <<>>]
    /\ pc = "start"
    /\ messages = <<>>
    /\ response = NoResponse
    /\ pending = <<>>
    /\ toolUseBlocks = <<>>
    /\ toolResults = <<>>
    /\ res = NewRes
    /\ error = NoError
    /\ modelCalls = 0
    /\ queries = 0
    /\ controllerCalls = 0
    /\ inflight = NoResponse
    /\ deltas = <<>>
    /\ turnStart = 0
    /\ conc = NoRequests
    /\ cmp = NotCompared

ConcUnchanged ==
    UNCHANGED <<variant, body, pc, messages, response, pending,
                toolUseBlocks, toolResults, res, error, modelCalls, queries,
                controllerCalls, inflight, deltas, turnStart, cmp>>

\* request r arrives and callClaudeWithTools seeds its conversation
Arrive(r) ==
    /\ conc.pc[r] = "idle"
    /\ conc' = [conc EXCEPT
           !.pc[r] = "awaiting_model",
           !.conv[MessagesOf(r)] =
               <<[role |-> "user", content |-> InputOf(r)]>>]
    /\ ConcUnchanged

\* request r sends its conversation to the model and awaits the answer
CallModelOf(r) ==
    /\ conc.pc[r] = "awaiting_model"
    /\ conc.calls[r] < MaxCalls
    /\ conc' = [conc EXCEPT
           !.pc[r] = "model_call",
           !.calls[r] = @ + 1,
           !.sent[r] = ConvOf(r)]
    /\ ConcUnchanged

\* the model call of request r resolves asking for tools: a name without a
\* case is answered on the spot and the round is appended, a name with a case
\* awaits the backend
ModelReturnsToolUseOf(r) ==
    /\ conc.pc[r] = "model_call"
    /\ \E script \in ConcScripts :
         LET resp == FinalMessage(script, "tool_use",
                                  CallNoOf(r, conc.calls[r]))
             blocks == FilterToolUse(resp.content)
             call(b) == handleToolCall(variant, b.name, b.input)
         IN  IF blocks # <<>> /\ call(blocks[1]).kind = "query"
             THEN conc' = [conc EXCEPT !.pc[r] = "query", !.resp[r] = resp]
             ELSE conc' = [conc EXCEPT
                      !.pc[r] = "awaiting_model",
                      !.resp[r] = resp,
                      !.conv[MessagesOf(r)] =
                          AppendRound(@, resp.content,
                              [i \in 1..Len(blocks) |->
                                  ToolResult(blocks[i],
                                             call(blocks[i]).value)])]
    /\ ConcUnchanged

\* the model call of request r resolves with any other stop reason
ModelReturnsFinalOf(r) ==
    /\ conc.pc[r] = "model_call"
    /\ conc' = [conc EXCEPT
           !.pc[r] = "returned",
           !.resp[r] = FinalMessage(<<>>, "end_turn",
                                    CallNoOf(r, conc.calls[r]))]
    /\ ConcUnchanged

\* the backend query of request r resolves and the round is appended
QueryReturnsOf(r) ==
    /\ conc.pc[r] = "query"
    /\ LET blocks == FilterToolUse(conc.resp[r].content)
           call == handleToolCall(variant, blocks[1].name, blocks[1].input)
       IN  \E data \in BackendReplies(variant, call) :
             conc' = [conc EXCEPT
                 !.pc[r] = "awaiting_model",
                 !.conv[MessagesOf(r)] =
                     AppendRound(@, conc.resp[r].content,
                                 <<ToolResult(blocks[1], data)>>)]
    /\ ConcUnchanged

\* the model call or the backend query of request r rejects
ThrowsOf(r) ==
    /\ conc.pc[r] \in {"model_call", "query"}
    /\ conc' = [conc EXCEPT !.pc[r] = "thrown"]
    /\ ConcUnchanged

NextConc ==
    \/ \E r \in Requests : Arrive(r)
    \/ \E r \in Requests : CallModelOf(r)
    \/ \E r \in Requests : ModelReturnsToolUseOf(r)
    \/ \E r \in Requests : ModelReturnsFinalOf(r)
    \/ \E r \in Requests : QueryReturnsOf(r)
    \/ \E r \in Requests : ThrowsOf(r)

SpecConc == InitConc /\ [][NextConc]_vars

---------------------------------------------------------------------------
(* The buffered and the streaming variant side by side: both are given the
   same model responses, and the tool rounds, which the two variants carry
   out alike, succeed *)

\* the text the model is followed through: none, two fragments, and the
\* words of the fallback in two fragments
CmpTextRuns == { <<>>, <<"a", "b">>, <<"No response ", "generated.">> }

CmpBlocks ==
    { [type |-> "text", deltas |-> d, name |-> "", input |-> {}] :
          d \in CmpTextRuns }
    \cup
    { [type |-> "tool_use", deltas |-> <<>>, name |-> "list_matches",
       input |-> {}] }

\* the responses of at most n content blocks
CmpScripts(n) == UNION { [1..k -> CmpBlocks] : k \in 0..n }

\* the content blocks of the responses received so far
RECURSIVE CmpBlocksReceived(_)
CmpBlocksReceived(turns) ==
    IF turns = <<>> THEN 0
    ELSE Len(Head(turns).content) + CmpBlocksReceived(Tail(turns))

InitCmp ==
    /\ variant = "buffered"
    /\ body = [present |-> FALSE, userInputText |-> <<>>]
    /\ pc = "start"
    /\ messages = <<>>
    /\ response = NoResponse
    /\ pending = <<>>
    /\ toolUseBlocks = <<>>
    /\ toolResults = <<>>
    /\ res = NewRes
    /\ error = NoError
    /\ modelCalls = 0
    /\ queries = 0
    /\ controllerCalls = 0
    /\ inflight = NoResponse
    /\ deltas = <<>>
    /\ turnStart = 0
    /\ conc = NoRequests
    /\ cmp = NotCompared

CmpUnchanged ==
    UNCHANGED <<variant, body, pc, messages, response, pending,
                toolUseBlocks, toolResults, res, error, modelCalls, queries,
                controllerCalls, inflight, deltas, turnStart, conc>>

\* both handlers receive the same non-blank text; the streaming one sets its
\* headers before it enters callClaudeWithTools
CmpReceiveText ==
    /\ cmp.pc = "start"
    /\ cmp' = [cmp EXCEPT !.pc = "awaiting_model",
                          !.streaming = StreamingHeaders(@)]
    /\ CmpUnchanged

\* both variants call the model and are given the same response
CmpCallModel ==
    /\ cmp.pc = "awaiting_model"
    /\ cmp.calls < MaxCalls
    /\ \E script \in CmpScripts(MaxBlocks - CmpBlocksReceived(cmp.turns)),
          stopReason \in StopReasons :
          cmp' = [cmp EXCEPT
              !.pc = "model_call",
              !.calls = @ + 1,
              !.inflight = FinalMessage(script, stopReason, cmp.calls + 1),
              !.pending = Deltas(script)]
    /\ CmpUnchanged

\* stream.on("text", delta => res.write(delta)), streaming variant only
CmpStreamTextFinalOnly ==
    /\ cmp.pc = "model_call"
    /\ cmp.pending # <<>>
    /\ cmp' = [cmp EXCEPT
           !.streaming = IF IsToolUse(cmp.inflight) THEN @
                         ELSE Write(@, Head(cmp.pending)),
           !.pending = Tail(@)]
    /\ CmpUnchanged

CmpStreamText ==
    /\ cmp.pc = "model_call"
    /\ cmp.pending # <<>>
    /\ cmp' = [cmp EXCEPT !.streaming = Write(@, Head(cmp.pending)),
                          !.pending = Tail(@)]
    /\ CmpUnchanged

\* the response asks for tools: both variants run the round and loop
CmpReturnsToolUse ==
    /\ cmp.pc = "model_call"
    /\ cmp.pending = <<>>
    /\ IsToolUse(cmp.inflight)
    /\ cmp' = [cmp EXCEPT !.pc = "awaiting_model",
                          !.turns = Append(@, cmp.inflight)]
    /\ CmpUnchanged

\* any other stop reason: both loops end
CmpReturnsFinal ==
    /\ cmp.pc = "model_call"
    /\ cmp.pending = <<>>
    /\ ~IsToolUse(cmp.inflight)
    /\ cmp' = [cmp EXCEPT !.pc = "done", !.turns = Append(@, cmp.inflight)]
    /\ CmpUnchanged

\* both handlers complete their response
CmpHandlerFinish ==
    /\ cmp.pc = "done"
    /\ cmp' = [cmp EXCEPT
           !.pc = "responded",
           !.buffered = Send(SetHeader(@, "Content-Type", "text/plain"),
                             FinalText(cmp.inflight.content)),
           !.streaming = End(@)]
    /\ CmpUnchanged

NextCmp ==
    \/ CmpReceiveText
    \/ CmpCallModel
    \/ CmpStreamText
    \/ CmpReturnsToolUse
    \/ CmpReturnsFinal
    \/ CmpHandlerFinish

SpecCmp == InitCmp /\ [][NextCmp]_vars

---------------------------------------------------------------------------
(* Vocabulary of the properties *)

\* a text with no character other than whitespace (the empty text included)
OnlyWhitespace(text) == \A i \in 1..Len(text) : text[i] \in Whitespace

\* the text the handler reads from the request
InputText == IF body.present THEN body.userInputText ELSE <<>>

\* positions of the tool_use blocks of a content
ToolUsePositions(content) ==
    {j \in 1..Len(content) : content[j].type = "tool_use"}

\* positions of the assistant turns of the conversation
AssistantTurns == {i \in 1..Len(messages) : messages[i].role = "assistant"}

\* the serialized error payload of an unknown tool
UnknownToolJSON(name) == "{\"error\":\"Unknown tool: " \o name \o "\"}"

---------------------------------------------------------------------------
(* Properties *)

\* C1: once the handler has read the request, callClaudeWithTools has been
\* invoked exactly once if the input text is non-blank after trimming; if
\* the text is missing, empty or whitespace-only it has never been invoked,
\* the response is the fixed text "Please enter a message." and there has
\* been no model call and no backend query.
C1_BlankNeverInvokes ==
    pc # "start" =>
        IF OnlyWhitespace(InputText)
        THEN /\ controllerCalls = 0
             /\ modelCalls = 0
             /\ queries = 0
             /\ pc = "responded"
             /\ res.body = <<PleaseEnter>>
             /\ res.ended
        ELSE controllerCalls = 1

C1_Witness ==
    /\ pc = "responded"
    /\ InputText # <<>>
    /\ OnlyWhitespace(InputText)
    /\ res.body = <<PleaseEnter>>

\* C2 (as claimed): whenever a backend query finishes, by resolving or by
\* throwing, one more tool result is collected for the request at hand and
\* control stays in the loop; the failure never leaves the loop.
C2_QueryFailureBecomesResult ==
    [][ (pc = "query" /\ pc' # "query") =>
            /\ pc' \in {"dispatching", "awaiting_model"}
            /\ Len(toolResults') = Len(toolResults) + 1
            /\ toolResults'[Len(toolResults')].tool_use_id = CurrentToolUse.id
      ]_vars

\* C3 (as claimed): the handler never answers with status 500 because of a
\* failed backend query.
C3_NoServerErrorFromBackend ==
    res.status = 500 => error.source # "backend"

\* C4: every assistant turn of the conversation with n tool_use blocks is
\* followed by a user turn with exactly n tool_result entries, and matching
\* entries to requests by tool_use_id is a bijection.
C4_ResultsBijection ==
    \A i \in AssistantTurns :
        LET requests == ToolUsePositions(messages[i].content)
        IN  /\ i + 1 <= Len(messages)
            /\ messages[i + 1].role = "user"
            /\ Len(messages[i + 1].content) = Cardinality(requests)
            /\ \A j \in requests :
                 Cardinality({k \in 1..Len(messages[i + 1].content) :
                     messages[i + 1].content[k].tool_use_id
                         = messages[i].content[j].id}) = 1
            /\ \A k \in 1..Len(messages[i + 1].content) :
                 /\ messages[i + 1].content[k].type = "tool_result"
                 /\ \E j \in requests :
                      messages[i + 1].content[k].tool_use_id
                          = messages[i].content[j].id

C4_Witness ==
    \E i \in AssistantTurns :
        /\ Cardinality(ToolUsePositions(messages[i].content)) = 2
        /\ Len(messages[i + 1].content) = 2

\* C5: dispatching a request whose name has no case in handleToolCall
\* returns {error: "Unknown tool: <name>"} with the requested name, does not
\* throw and starts no backend query.
C5_UnknownToolPayload ==
    [][ (pc = "dispatching" /\ CurrentToolUse.name \notin Handled(variant)) =>
            /\ CurrentCall.kind = "value"
            /\ CurrentCall.value =
                 [key |-> "error", string |-> TRUE,
                  value |-> "Unknown tool: " \o CurrentToolUse.name]
            /\ queries' = queries
            /\ pc' \notin {"query", "thrown"}
            /\ error' = NoError
      ]_vars

C5_Witness ==
    /\ variant = "buffered"
    /\ toolResults # <<>>
    /\ toolResults[Len(toolResults)].content
         = UnknownToolJSON("get_player_events")

\* C6: dispatching an unknown tool collects the error payload as that
\* request's tool result, raises nothing and leaves the response untouched;
\* after the last request of the batch the result turn is in the
\* conversation and the loop is back at the model call.  No server-error
\* response stems from an unknown tool.
C6_UnknownToolAbsorbed ==
    /\ [][ (pc = "dispatching" /\ CurrentToolUse.name \notin Handled(variant))
           => /\ toolResults' = Append(toolResults,
                    [type |-> "tool_result",
                     tool_use_id |-> CurrentToolUse.id,
                     content |-> UnknownToolJSON(CurrentToolUse.name)])
              /\ res' = res
              /\ error' = NoError
              /\ IF Len(toolResults') = Len(toolUseBlocks)
                 THEN /\ pc' = "awaiting_model"
                      /\ messages'[Len(messages')] =
                           [role |-> "user", content |-> toolResults']
                 ELSE pc' = "dispatching"
         ]_vars
    /\ [](res.status = 500 => error.source \in {"model", "backend"})

C6_Witness ==
    /\ pc = "model_call"
    /\ modelCalls = 2
    /\ Len(messages) = 3
    /\ \E k \in 1..Len(messages[3].content) :
          messages[3].content[k].content = UnknownToolJSON("delete_everything")

\* a step in which the model call in flight resolves
Resolves == pc = "model_call" /\ pc' \notin {"model_call", "thrown"}

\* C7: a response with a stop reason other than tool_use takes the loop to
\* DONE in the step that receives it, a tool_use response never does, and
\* from DONE on there is no model call, no backend query and no append.
C7_DoneIsTerminal ==
    /\ [][ Resolves => (pc' = "done" <=> inflight.stop_reason # "tool_use")
         ]_vars
    /\ [][ (pc \in {"done", "responded"}) =>
              (/\ pc' \in {"done", "responded"}
               /\ modelCalls' = modelCalls
               /\ queries' = queries
               /\ messages' = messages)
         ]_vars
    /\ [](pc = "done" => response.stop_reason # "tool_use")

C7_Witness ==
    /\ pc = "done"
    /\ Len(messages) = 3
    /\ queries = 2

\* the text of a model turn: its text blocks, concatenated in order
RECURSIVE TurnText(_)
TurnText(content) ==
    IF content = <<>> THEN ""
    ELSE (IF Head(content).type = "text" THEN Head(content).text ELSE "")
            \o TurnText(Tail(content))

\* the chunks written to the response since the current model call started
WrittenThisTurn == SubSeq(res.body, turnStart + 1, Len(res.body))

\* C8: in streaming mode the chunks written during a model call are the
\* deltas the model has produced so far, in the same order; once the stream
\* has delivered its final message their concatenation is the text of that
\* turn, and nothing more is written until the next model call.
C8_StreamedTextIsTurnText ==
    /\ []((Streaming(variant) /\ pc = "model_call") =>
            WrittenThisTurn = SubSeq(deltas, 1, Len(deltas) - Len(pending)))
    /\ []((Streaming(variant) /\ modelCalls > 0
              /\ pc \in {"dispatching", "query", "awaiting_model", "done"}) =>
            Concat(WrittenThisTurn) = TurnText(response.content))
    /\ [][ (Streaming(variant)
              /\ pc \in {"dispatching", "query", "awaiting_model", "done"}) =>
            res'.body = res.body
         ]_vars

C8_Witness ==
    /\ Streaming(variant)
    /\ pc = "done"
    /\ modelCalls = 2
    /\ turnStart = 2
    /\ Len(res.body) = 4
    /\ TurnText(response.content) = "ab"

\* C9: when an error reaches the handler and the headers have not been
\* sent, it answers status 500 with a plain-text error description; when
\* streaming output has begun it only ends the response, leaving status and
\* body as they are.
C9_ErrorResponse ==
    [][ (pc = "thrown") =>
          IF res.headersSent
          THEN res' = [res EXCEPT !.ended = TRUE, !.completions = @ + 1]
          ELSE /\ res'.status = 500
               /\ <<"Content-Type", "text/plain">> \in res'.headers
               /\ res'.body \in
                    { <<"Error: " \o error.message>>,
                      <<"Sorry, something went wrong. Please try again.">> }
               /\ res'.ended
      ]_vars

C9_Witness ==
    /\ pc = "responded"
    /\ error # NoError
    /\ res.status = 200
    /\ res.ended
    /\ res.body = <<"a", "b">>

\* C10: a failed model call is not retried.  Every model call after the
\* first follows a completed tool round; once a model call has failed the
\* error is on its way to the handler or handled, no model call and no
\* backend query is started any more, and the handler answers status 500 or,
\* if output has begun, only ends the stream.
C10_NoRetry ==
    /\ [](modelCalls > 0 => 2 * modelCalls <= Len(messages) + 1)
    /\ [](error.source = "model" => pc \in {"thrown", "responded"})
    /\ [][ (error.source = "model") =>
              (/\ modelCalls' = modelCalls
               /\ queries' = queries
               /\ error' = error
               /\ pc' = "responded"
               /\ res'.ended
               /\ (res'.status = 500 \/ res.headersSent))
         ]_vars

C10_Witness ==
    /\ pc = "responded"
    /\ error.source = "model"
    /\ modelCalls = 2
    /\ queries = 1
    /\ res.status = 500

\* C11 (as claimed): the Controller stops the loop at a maximum number of
\* model-call / tool-dispatch round trips: some limit below the number of
\* calls followed here is never exceeded.
C11_IterationCap ==
    \E limit \in 1..(MaxCalls - 1) : modelCalls <= limit

\* s is a prefix of t
IsPrefix(s, t) == Len(s) <= Len(t) /\ SubSeq(t, 1, Len(s)) = s

\* C12: the conversation only grows by appending: in every step the
\* conversation before the step is a prefix of the conversation after it.
C12_AppendOnly ==
    [][IsPrefix(messages, messages')]_vars

C12_Witness ==
    /\ Len(messages) = 5
    /\ pc = "awaiting_model"

\* C13: at every model call the conversation starts with a user turn and
\* alternates strictly: odd positions are user turns, even positions are
\* assistant turns, and every tool-result turn is a user turn right after
\* the assistant turn whose tool_use blocks it answers.
C13_RolesAlternate ==
    pc \in {"awaiting_model", "model_call"} =>
        /\ Len(messages) >= 1
        /\ Len(messages) % 2 = 1
        /\ \A i \in 1..Len(messages) :
             messages[i].role = IF i % 2 = 1 THEN "user" ELSE "assistant"
        /\ \A i \in 2..Len(messages) :
             messages[i].role = "user" =>
                /\ messages[i - 1].role = "assistant"
                /\ \A k \in 1..Len(messages[i].content) :
                     /\ messages[i].content[k].type = "tool_result"
                     /\ \E j \in ToolUsePositions(messages[i - 1].content) :
                          messages[i - 1].content[j].id
                              = messages[i].content[k].tool_use_id

C13_Witness ==
    /\ pc = "model_call"
    /\ Len(messages) = 3
    /\ Len(messages[3].content) = 1

\* C14: the loop is sequential.  A backend query is started only from the
\* dispatch of a fully received response (stream drained, final message
\* delivered); the results collected so far answer the first tool_use
\* blocks in listed order, so each tool is awaited before the next starts; a
\* model call is started only when the whole batch has its results; while a
\* query is in flight no model call and no other query starts, and while a
\* model call is in flight no query starts.
C14_Sequential ==
    /\ [][ (queries' > queries) =>
              (/\ pc = "dispatching"
               /\ pending = <<>>
               /\ response = inflight
               /\ queries' = queries + 1)
         ]_vars
    /\ []((pc \in {"dispatching", "query"}) =>
              (/\ pending = <<>>
               /\ Len(toolResults) < Len(toolUseBlocks)
               /\ \A k \in 1..Len(toolResults) :
                    toolResults[k].tool_use_id = toolUseBlocks[k].id))
    /\ [][ (modelCalls' > modelCalls) =>
              (/\ pc = "awaiting_model"
               /\ modelCalls > 0 => Len(toolResults) = Len(toolUseBlocks))
         ]_vars
    /\ [][ (pc = "query") => (modelCalls' = modelCalls /\ queries' = queries)
         ]_vars
    /\ [][ (pc = "model_call") => queries' = queries ]_vars

C14_Witness ==
    /\ Streaming(variant)
    /\ pc = "query"
    /\ queries = 2
    /\ Len(toolUseBlocks) = 2
    /\ res.body = <<"a", "b">>

\* C16: in streaming mode every delta of a model turn has been written to
\* the response, in arrival order, at the step that inspects the turn's stop
\* reason, hence before any tool of the turn is dispatched and before the
\* next model call starts.
C16_FragmentsBeforeStopReason ==
    /\ [][ (Streaming(variant) /\ Resolves) =>
              (pending = <<>> /\ WrittenThisTurn = deltas)
         ]_vars
    /\ []((Streaming(variant) /\ pc \in {"dispatching", "query"}) =>
              WrittenThisTurn = deltas)
    /\ [][ (Streaming(variant) /\ modelCalls' > modelCalls) =>
              WrittenThisTurn = deltas
         ]_vars

C16_Witness ==
    /\ Streaming(variant)
    /\ pc = "dispatching"
    /\ deltas = <<"a", "b">>
    /\ WrittenThisTurn = deltas

\* the ids of the tool_use blocks of a content, in listed order
RECURSIVE ToolUseIds(_)
ToolUseIds(content) ==
    IF content = <<>> THEN <<>>
    ELSE (IF Head(content).type = "tool_use" THEN <<Head(content).id>>
          ELSE <<>>) \o ToolUseIds(Tail(content))

\* C17: every step that changes a seeded conversation appends exactly two
\* turns: first the assistant turn whose content is the model response's
\* content unchanged, then one user turn whose tool results answer the
\* tool_use blocks of that response in listed order.
C17_RoundAppendsTwoTurns ==
    [][ (messages # <<>> /\ messages' # messages) =>
          LET n == Len(messages)
          IN  /\ Len(messages') = n + 2
              /\ SubSeq(messages', 1, n) = messages
              /\ response' = inflight
              /\ messages'[n + 1] =
                   [role |-> "assistant", content |-> inflight.content]
              /\ messages'[n + 2].role = "user"
              /\ [k \in 1..Len(messages'[n + 2].content) |->
                     messages'[n + 2].content[k].tool_use_id]
                   = ToolUseIds(inflight.content)
      ]_vars

C17_Witness ==
    /\ Len(messages) = 3
    /\ Len(messages[2].content) = 3
    /\ messages[2].content[1].type = "text"
    /\ Len(messages[3].content) = 2

\* C18: a response with stop reason tool_use and no tool_use block is a
\* no-op dispatch: the step that receives it starts no backend query,
\* appends the assistant turn and a user turn with an empty result list, and
\* returns the loop to the model call.
C18_EmptyDispatch ==
    [][ (Resolves /\ inflight.stop_reason = "tool_use"
            /\ ToolUsePositions(inflight.content) = {}) =>
          (/\ queries' = queries
           /\ messages' = messages \o
                << [role |-> "assistant", content |-> inflight.content],
                   [role |-> "user", content |-> <<>>] >>
           /\ pc' = "awaiting_model"
           /\ error' = NoError)
      ]_vars

C18_Witness ==
    /\ pc = "model_call"
    /\ modelCalls = 2
    /\ queries = 0
    /\ Len(messages) = 3
    /\ messages[2].content # <<>>
    /\ messages[3].content = <<>>

\* the tool_use blocks of a content that name an operation with a case in
\* handleToolCall
SupportedRequests(content) ==
    Cardinality({j \in ToolUsePositions(content) :
                    content[j].name \in Handled(variant)})

\* ... summed over the assistant turns of a conversation
RECURSIVE SupportedInTurns(_)
SupportedInTurns(msgs) ==
    IF msgs = <<>> THEN 0
    ELSE (IF Head(msgs).role = "assistant"
          THEN SupportedRequests(Head(msgs).content) ELSE 0)
            + SupportedInTurns(Tail(msgs))

\* the requests of the batch under dispatch handed to handleToolCall so far
DispatchedInBatch ==
    IF pc = "dispatching" THEN Len(toolResults)
    ELSE IF pc = "query" \/ error.source = "backend"
         THEN Len(toolResults) + 1
         ELSE 0

\* C19: a dispatched request naming a supported operation starts exactly one
\* backend query, whether an equal request was answered before or not, and a
\* failed query is not started again: the number of backend queries equals
\* the number of dispatched requests that name a supported operation.
C19_OneQueryPerSupportedCall ==
    /\ [](queries = SupportedInTurns(messages)
                      + SupportedRequests(
                            SubSeq(toolUseBlocks, 1, DispatchedInBatch)))
    /\ [][ (pc = "dispatching") =>
              queries' = queries
                  + (IF CurrentToolUse.name \in Handled(variant)
                     THEN 1 ELSE 0)
         ]_vars
    /\ [][ (pc # "dispatching") => queries' = queries ]_vars

C19_Witness ==
    /\ pc = "awaiting_model"
    /\ queries = 2
    /\ Len(toolUseBlocks) = 2
    /\ toolUseBlocks[1].name = "list_matches"
    /\ toolUseBlocks[2].name = "list_matches"
    /\ toolResults[1].content = toolResults[2].content

\* C20 (as claimed): handleToolCall handles a missing required argument
\* itself: no backend query is ever in flight with an absent value among its
\* variables.
C20_NoAbsentArgumentForwarded ==
    pc = "query" => \A p \in CurrentCall.variables : p[2] # Undefined

\* the turns of a conversation that request r did not produce: a first turn
\* that is not r's text, a tool request minted for another request, or a tool
\* result answering one
ForeignTurns(r, msgs) ==
    { i \in 1..Len(msgs) :
        \/ i = 1 /\ msgs[i] # [role |-> "user", content |-> InputOf(r)]
        \/ /\ i > 1
           /\ msgs[i].role = "assistant"
           /\ \E k \in 1..Len(msgs[i].content) :
                /\ msgs[i].content[k].type = "tool_use"
                /\ RequestOfId(msgs[i].content[k].id) # r
        \/ /\ i > 1
           /\ msgs[i].role = "user"
           /\ \E k \in 1..Len(msgs[i].content) :
                RequestOfId(msgs[i].content[k].tool_use_id) # r }

\* C15: requests served concurrently own independent conversations: the
\* conversation a request sends to the model starts with that request's text,
\* holds one seed turn and two turns per round of that request and nothing
\* else, and no turn of it was produced while serving another request,
\* whether that request is still running or has finished.
C15_IndependentConversations ==
    \A r \in Requests :
        /\ conc.pc[r] \in {"model_call", "query"} =>
              /\ conc.sent[r] = ConvOf(r)
              /\ Len(conc.sent[r]) = 2 * conc.calls[r] - 1
        /\ conc.pc[r] \notin {"idle", "returned", "thrown"} =>
              ForeignTurns(r, ConvOf(r)) = {}
        /\ conc.pc[r] # "idle" => ForeignTurns(r, conc.sent[r]) = {}

C15_Witness ==
    /\ conc.pc[1] = "model_call"
    /\ conc.pc[2] = "model_call"
    /\ Len(conc.sent[1]) = 3
    /\ Len(conc.sent[2]) = 3
    /\ conc.sent[1][3].content # <<>>
    /\ conc.sent[2][3].content # <<>>

\* the names declared in the catalog of the variant at hand
Catalog == { tools(variant)[i] : i \in 1..Len(tools(variant)) }

\* every name a catalog declares or the model is seen to request
ToolNames ==
    UNION { { tools(v)[i] : i \in 1..Len(tools(v)) } : v \in Variants }
        \cup { t.name : t \in ToolRequests }

\* C21: in every variant (the variant is fixed when the request arrives) the
\* names of the tools catalog are pairwise distinct, a name is answered by a
\* backend query exactly if the catalog declares it, and so no result
\* in the conversation answering a request for
\* a catalog tool is the "Unknown tool" payload, while every request for a
\* name outside the catalog is answered by it.
C21_CatalogMatchesHandlers ==
    /\ pc = "start" =>
          /\ Cardinality(Catalog) = Len(tools(variant))
          /\ Catalog = Handled(variant)
          /\ \A n \in ToolNames : \A t \in ToolRequests :
                handleToolCall(variant, n, t.input).kind = "query"
                    <=> n \in Catalog
    /\ pc = "query" => CurrentToolUse.name \in Catalog
    /\ \A i \in AssistantTurns :
          \A j \in ToolUsePositions(messages[i].content) :
          \A k \in 1..Len(messages[i + 1].content) :
              messages[i + 1].content[k].tool_use_id = messages[i].content[j].id
              => (messages[i + 1].content[k].content
                      = UnknownToolJSON(messages[i].content[j].name)
                  <=> messages[i].content[j].name \notin Catalog)

C21_Witness ==
    /\ variant = "streaming7"
    /\ Len(messages) = 3
    /\ Len(messages[2].content) = 2
    /\ messages[2].content[1].type = "tool_use"
    /\ messages[2].content[1].name = "get_player_events"
    /\ messages[2].content[2].type = "tool_use"
    /\ messages[2].content[2].name = "delete_everything"
    /\ messages[3].content[1].content = "{\"data\":{}}"
    /\ messages[3].content[2].content = UnknownToolJSON("delete_everything")

\* C22: when the backend query of the j-th request of a batch throws, the
\* j-1 results collected so far stay where they are and the requests after
\* the j-th are never dispatched; the conversation is the one the last model
\* call was made with (neither the assistant turn of the round nor a result
\* turn is appended, then or later), and no model call or backend query
\* follows.
C22_ThrowLeavesConversation ==
    /\ [][ (pc = "query" /\ pc' = "thrown") =>
              /\ messages' = messages
              /\ toolResults' = toolResults
              /\ toolUseBlocks' = toolUseBlocks
         ]_vars
    /\ [][ (error.source = "backend") =>
              /\ messages' = messages
              /\ toolResults' = toolResults
              /\ modelCalls' = modelCalls
              /\ queries' = queries
              /\ pc' \in {"thrown", "responded"}
         ]_vars
    /\ [](error.source = "backend" =>
              /\ Len(messages) = 2 * modelCalls - 1
              /\ Len(toolResults) < Len(toolUseBlocks)
              /\ \A i \in 2..Len(messages) :
                    IF messages[i].role = "assistant"
                    THEN messages[i].content # response.content
                    ELSE \A n \in 1..Len(messages[i].content) :
                           \A k \in 1..Len(toolUseBlocks) :
                              messages[i].content[n].tool_use_id
                                  # toolUseBlocks[k].id)

C22_Witness ==
    /\ pc = "responded"
    /\ error = BackendError
    /\ Len(toolUseBlocks) = 3
    /\ Len(toolResults) = 1
    /\ Len(messages) = 1
    /\ modelCalls = 1

\* the tool-dispatch rounds completed so far: each appends one assistant turn
RoundsCompleted == Cardinality(AssistantTurns)

\* C23: whenever a model call is about to start or is in flight, the
\* conversation has 2k+1 turns, k being the number of tool-dispatch rounds
\* completed so far, and its first turn is the user turn holding the
\* caller's input text as received; the k-th round is completed before the
\* (k+1)-th call, so a request that completes after k tool_use responses has
\* called the model exactly k+1 times.
C23_ConversationLength ==
    /\ pc \in {"awaiting_model", "model_call", "done"} =>
          /\ Len(messages) = 2 * RoundsCompleted + 1
          /\ messages[1] = [role |-> "user", content |-> InputText]
    /\ pc = "awaiting_model" => modelCalls = RoundsCompleted
    /\ pc \in {"model_call", "done"} => modelCalls = RoundsCompleted + 1
    /\ (pc = "responded" /\ error = NoError /\ controllerCalls = 1) =>
          /\ modelCalls = RoundsCompleted + 1
          /\ Len(messages) = 2 * RoundsCompleted + 1

C23_Witness ==
    /\ pc = "responded"
    /\ error = NoError
    /\ RoundsCompleted = 1
    /\ modelCalls = 2
    /\ Len(messages) = 3
    /\ messages[1].content = <<" ", "h", " ">>

\* positions of the text blocks of a content
TextPositions(content) ==
    {j \in 1..Len(content) : content[j].type = "text"}

\* the first text block of a content that has one
FirstTextBlock(content) ==
    content[CHOOSE j \in TextPositions(content) :
                \A k \in TextPositions(content) : j <= k]

\* C24: in the buffered variants a request that the model answered ends with
\* status 200 and a body sent in one piece: the text of the first text block
\* of the final response, or the fixed string "No response generated." when
\* the final response has no text block or its first text block is empty
\* (later text blocks are not looked at).
C24_BufferedFinalText ==
    (~Streaming(variant) /\ pc = "responded" /\ error = NoError
        /\ controllerCalls = 1) =>
        /\ ~IsToolUse(response)
        /\ res.status = 200
        /\ res.ended
        /\ Len(res.body) = 1
        /\ res.body[1] =
              IF TextPositions(response.content) = {}
              THEN "No response generated."
              ELSE IF FirstTextBlock(response.content).text = ""
                   THEN "No response generated."
                   ELSE FirstTextBlock(response.content).text

C24_Witness ==
    /\ variant = "buffered"
    /\ pc = "responded"
    /\ error = NoError
    /\ Len(response.content) = 3
    /\ response.content[1].type = "tool_use"
    /\ response.content[2].type = "text"
    /\ response.content[2].text = ""
    /\ response.content[3].type = "text"
    /\ response.content[3].text = "ab"
    /\ res.body = <<"No response generated.">>

\* the text of all the turns the model produced, in order
RECURSIVE AllTurnsText(_)
AllTurnsText(turns) ==
    IF turns = <<>> THEN ""
    ELSE TurnText(Head(turns).content) \o AllTurnsText(Tail(turns))

\* the response that ended the loop
FinalTurn == cmp.turns[Len(cmp.turns)]

\* some tool_use turn carries text
ToolTurnCarriesText ==
    \E i \in 1..(Len(cmp.turns) - 1) : TurnText(cmp.turns[i].content) # ""

\* only the final turn has text blocks: one, and it is not empty
OnlyFinalSingleText ==
    /\ \A i \in 1..(Len(cmp.turns) - 1) :
          TextPositions(cmp.turns[i].content) = {}
    /\ Cardinality(TextPositions(FinalTurn.content)) = 1
    /\ TurnText(FinalTurn.content) # ""

\* the final turn has no text block, or its first text block is empty
FinalFallsBack ==
    \/ TextPositions(FinalTurn.content) = {}
    \/ FirstTextBlock(FinalTurn.content).text = ""

\* what the claim says of each body
BodiesAsDescribed ==
    /\ Concat(cmp.streaming.body) = AllTurnsText(cmp.turns)
    /\ Len(cmp.buffered.body) = 1
    /\ cmp.buffered.body[1] =
          IF FinalFallsBack THEN "No response generated."
          ELSE FirstTextBlock(FinalTurn.content).text
    /\ OnlyFinalSingleText =>
          Concat(cmp.streaming.body) = Concat(cmp.buffered.body)

\* C25 (as claimed): given the same model responses, the streaming body is
\* the text of every turn in order and the buffered body only text of the
\* final turn; the two bodies differ whenever a tool_use turn carries text,
\* and are equal when only the final turn carries text, in one text block.
C25_BodiesDiffer ==
    cmp.pc = "responded" =>
        /\ BodiesAsDescribed
        /\ ToolTurnCarriesText =>
              Concat(cmp.streaming.body) # Concat(cmp.buffered.body)

\* C25 (amended): as above, except that the two bodies are equal although a
\* tool_use turn carries text in exactly one case: the text of all turns
\* together is the fallback string "No response generated." and the final
\* turn has no text block or an empty first text block, so that the buffered
\* body is the fallback string too.
C25_BodiesDifferUnlessFallback ==
    cmp.pc = "responded" =>
        /\ BodiesAsDescribed
        /\ ToolTurnCarriesText =>
              (Concat(cmp.streaming.body) = Concat(cmp.buffered.body)
                  <=> /\ FinalFallsBack
                      /\ AllTurnsText(cmp.turns) = "No response generated.")

C25_Witness ==
    /\ cmp.pc = "responded"
    /\ Len(cmp.turns) = 2
    /\ TurnText(cmp.turns[1].content) = "ab"
    /\ TurnText(cmp.turns[2].content) = "ab"
    /\ cmp.streaming.body = <<"a", "b", "a", "b">>
    /\ cmp.buffered.body = <<"ab">>

\* the headers the streaming handler sets before it enters the controller
StreamingHeaderSet ==
    { <<"Content-Type", "text/plain; charset=utf-8">>,
      <<"Transfer-Encoding", "chunked">>,
      <<"Cache-Control", "no-cache">>,
      <<"X-Content-Type-Options", "nosniff">> }

\* C26: the response is completed at most once, and exactly once when the
\* handler has returned, whichever way it went (blank input, success, error
\* before or after output); a completed response is never touched again, so
\* no fragment follows the end; a fragment is written only with the
\* streaming headers set and during a model call; and the response is
\* completed only on the blank path, after the controller has returned, or
\* after it has failed.
C26_CompletedExactlyOnce ==
    /\ [](res.completions = IF pc = "responded" THEN 1 ELSE 0)
    /\ [](res.ended <=> pc = "responded")
    /\ [][ res.ended => res' = res ]_vars
    /\ [][ (Len(res'.body) > Len(res.body) /\ ~res'.ended) =>
              /\ Streaming(variant)
              /\ pc = "model_call"
              /\ StreamingHeaderSet \subseteq res.headers
              /\ ~res.headersSent => res.body = <<>>
         ]_vars
    /\ [][ (res'.completions # res.completions) =>
              /\ res'.completions = res.completions + 1
              /\ pc \in {"start", "done", "thrown"}
              /\ pc = "start" => OnlyWhitespace(InputText)
              /\ pc' = "responded"
         ]_vars

C26_Witness ==
    /\ variant = "streaming7"
    /\ pc = "responded"
    /\ error = BackendError
    /\ res.body = <<"a", "b">>
    /\ res.status = 200
    /\ res.completions = 1
    /\ StreamingHeaderSet \subseteq res.headers

====
